---- MODULE Spec2Model ----
(***************************************************************************)
(* A model of delimited_output (src/delimited_output.hpp): the delimiters  *)
(* bundle, the inserter with its value setters, the stream insertion       *)
(* operator and the overloaded, recursive helpers::output.                 *)
(*                                                                         *)
(* Text is a sequence of characters. A call of helpers::output is modelled *)
(* by the trace of what it does, in order: the entry of every (recursive)  *)
(* call, every insertion `out << ...` with the expression inserted, and    *)
(* every return. The text appended to the sink is the concatenation of the *)
(* inserted texts, the first of them padded to the field width of the      *)
(* sink. The character type CharT of the sink is fixed, and the strings of *)
(* the model are strings of that character type.                           *)
(***************************************************************************)
EXTENDS Integers, Sequences, FiniteSets, TLC

VARIABLES
    di,        \* the inserter: [obj, delims] (src/delimited_output.hpp:193-194)
    status,    \* "none" (no inserter yet), "ready", "crashed", "rejected"
    out,       \* the content of the output sink (a basic_ostream)
    width,     \* the field width of the sink (std::ios_base::width)
    calls,     \* history: one record per completed operator<< call
    ctor,      \* history: the constructor called and the delimiters it set
    lastop,    \* history: the last operation, its argument, the config before it
    named,     \* history: per field, the argument of the last setter naming it
    nsetters   \* number of setter calls made on the inserter

vars == <<di, status, out, width, calls, ctor, lastop, named, nsetters>>

(***************************************************************************)
(* Bounds of the model.                                                    *)
(***************************************************************************)
MaxLen == 2         \* longest tuple or range enumerated
MaxChain == 2       \* setter calls per inserter
MaxRenders == 2     \* operator<< calls per inserter

(***************************************************************************)
(* basic_delimiters and its defaults.                                      *)
(***************************************************************************)
top_delim_default == <<",", " ">>
sub_prefix_default == <<"(">>
sub_delim_default == <<",", " ">>
sub_suffix_default == <<")">>
pair_prefix_default == <<"[">>
pair_delim_default == <<":", " ">>
pair_suffix_default == <<"]">>
empty_default == <<"<", "e", "m", "p", "t", "y", ">">>

StringFields ==
    {"top_delim", "sub_prefix", "sub_delim", "sub_suffix",
     "pair_prefix", "pair_delim", "pair_suffix", "empty"}

Fields == StringFields \cup {"top_as_sub"}

basic_delimiters ==
    [top_delim   |-> top_delim_default,
     sub_prefix  |-> sub_prefix_default,
     sub_delim   |-> sub_delim_default,
     sub_suffix  |-> sub_suffix_default,
     pair_prefix |-> pair_prefix_default,
     pair_delim  |-> pair_delim_default,
     pair_suffix |-> pair_suffix_default,
     top_as_sub  |-> FALSE,
     empty       |-> empty_default]

(***************************************************************************)
(* Values. Every value carries its static type; the payload fields that a  *)
(* type does not use are empty.                                            *)
(*   int                a number with a stream insertion operator          *)
(*   const_char_ptr     const CharT* (null when isnull)                    *)
(*   char_array         CharT[N], a string literal                         *)
(*   basic_string       std::basic_string<CharT, Traits, Allocator>        *)
(*   basic_string_view  std::basic_string_view<CharT, Traits>              *)
(*   pair, tuple        std::pair, std::tuple                              *)
(*   range              a container (array, vector, map): a range that has *)
(*                      no stream insertion operator                       *)
(*   printable_range    a range that has a stream insertion operator too   *)
(*   sequence           helpers::sequence<Iterator>: two iterators into an *)
(*                      array, held as positions 1..Len(arr) + 1           *)
(*   opaque             neither a range nor insertable                     *)
(***************************************************************************)
Val(type, n, chars, isnull, elems) ==
    [type |-> type, n |-> n, chars |-> chars, isnull |-> isnull, elems |-> elems]

NoObj == Val("none", 0, <<>>, FALSE, <<>>)
IntVal(n) == Val("int", n, <<>>, FALSE, <<>>)
CharPtr(s) == Val("const_char_ptr", 0, s, FALSE, <<>>)
NullCharPtr == Val("const_char_ptr", 0, <<>>, TRUE, <<>>)
CharArray(s) == Val("char_array", 0, s, FALSE, <<>>)
String(s) == Val("basic_string", 0, s, FALSE, <<>>)
StringView(s) == Val("basic_string_view", 0, s, FALSE, <<>>)
Pair(a, b) == Val("pair", 0, <<>>, FALSE, <<a, b>>)
Tuple(es) == Val("tuple", 0, <<>>, FALSE, es)
Range(es) == Val("range", 0, <<>>, FALSE, es)
PrintableRange(es, repr) == Val("printable_range", 0, repr, FALSE, es)
Opaque == Val("opaque", 0, <<>>, FALSE, <<>>)

\* struct sequence {Iterator begin_itr, end_itr; ...}; arr is the array the
\* iterators point into
sequence(arr, begin_itr, end_itr) ==
    [type |-> "sequence", n |-> 0, chars |-> <<>>, isnull |-> FALSE, elems |-> <<>>,
     arr |-> arr, begin_itr |-> begin_itr, end_itr |-> end_itr]

(***************************************************************************)
(* The text of `out << x` for a number: its decimal digits.                *)
(***************************************************************************)
DigitChar == <<"0", "1", "2", "3", "4", "5", "6", "7", "8", "9">>

RECURSIVE Digits(_)
Digits(n) ==
    IF n < 10 THEN <<DigitChar[n + 1]>>
    ELSE Digits(n \div 10) \o <<DigitChar[(n % 10) + 1]>>

IntText(n) == IF n < 0 THEN <<"-">> \o Digits(0 - n) ELSE Digits(n)

(***************************************************************************)
(* Overload resolution of helpers::output on the static type of the first  *)
(* argument. An overload is viable when template argument deduction         *)
(* succeeds and its constraint holds.                                      *)
(***************************************************************************)
Overloads ==
    {"default", "char_ptr", "basic_string", "basic_string_view",
     "pair", "tuple", "range"}

\* the concept ostream_insertable<T, CharT, Traits>
ostream_insertable(type) ==
    type \in {"int", "const_char_ptr", "char_array", "basic_string",
              "basic_string_view", "printable_range"}

\* the concept std::ranges::range<T>
ranges_range(type) ==
    type \in {"char_array", "basic_string", "basic_string_view",
              "range", "printable_range", "sequence"}

Viable(ov, type) ==
    CASE ov = "default" -> ostream_insertable(type)
      [] ov = "char_ptr" -> type \in {"const_char_ptr", "char_array"}
      [] ov = "basic_string" -> type = "basic_string"
      [] ov = "basic_string_view" -> type = "basic_string_view"
      [] ov = "pair" -> type = "pair"
      [] ov = "tuple" -> type = "tuple"
      [] ov = "range" -> ranges_range(type)

\* Partial ordering of the function templates: an overload whose first
\* parameter is const CharT*, const basic_string<...>&, const
\* basic_string_view<...>&, const pair<...>& or const tuple<...>& is more
\* specialized than one whose first parameter is const T&. The two const T&
\* overloads (default and range) differ only in their constraints, which sit
\* on template parameter lists that are not equivalent: neither is more
\* specialized than the other.
MoreSpecialized(a, b) ==
    /\ a \in {"char_ptr", "basic_string", "basic_string_view", "pair", "tuple"}
    /\ b \in {"default", "range"}

\* The overload a call on a value of this type selects; "ambiguous" or
\* "no_match" when the call does not compile.
Resolve(type) ==
    LET viable == {ov \in Overloads : Viable(ov, type)}
        best == {a \in viable : \A b \in viable \ {a} : MoreSpecialized(a, b)}
    IN  IF viable = {} THEN "no_match"
        ELSE IF best = {} THEN "ambiguous"
        ELSE CHOOSE a \in best : TRUE

(***************************************************************************)
(* Trace events of a call of helpers::output.                              *)
(***************************************************************************)
EvCall(fn, x, as_sub) ==
    [ev |-> "call", fn |-> fn, arg |-> x, as_sub |-> as_sub,
     what |-> "", text |-> <<>>]

EvRet == [ev |-> "ret", fn |-> "", arg |-> NoObj, as_sub |-> FALSE,
          what |-> "", text |-> <<>>]

\* `out << e`: what names the expression e, text is its value
Emit(what, text) ==
    [ev |-> "emit", fn |-> "", arg |-> NoObj, as_sub |-> FALSE,
     what |-> what, text |-> text]

\* the evaluation of *str for a null str: undefined behaviour
EvDerefNull == [ev |-> "deref_null", fn |-> "", arg |-> NoObj, as_sub |-> FALSE,
                what |-> "", text |-> <<>>]

\* the call does not compile: no overload, or no best overload
EvIllFormed(why) ==
    [ev |-> "ill_formed", fn |-> "", arg |-> NoObj, as_sub |-> FALSE,
     what |-> why, text |-> <<>>]

(***************************************************************************)
(* helpers::output, one operator per overload.                             *)
(***************************************************************************)
RECURSIVE output(_, _, _)
RECURSIVE output_pair(_, _, _)
RECURSIVE output_tuple(_, _, _)
RECURSIVE tuple_apply(_, _, _, _, _)
RECURSIVE output_range(_, _, _)
RECURSIVE range_while(_, _, _, _)

\* a variant of the default output that brackets a nested value
output_default_bracketed(x, delims, as_sub) ==
    (IF as_sub THEN <<Emit("sub_prefix", delims.sub_prefix)>> ELSE <<>>)
    \o <<Emit("x", IF x.type = "int" THEN IntText(x.n) ELSE x.chars)>>
    \o (IF as_sub THEN <<Emit("sub_suffix", delims.sub_suffix)>> ELSE <<>>)

\* default output: out << x
output_default(x, delims, as_sub) ==
    <<Emit("x", IF x.type = "int" THEN IntText(x.n) ELSE x.chars)>>

\* const CharT*: if (*str) out << str; else out << delims.empty;
output_char_ptr(str, delims, as_sub) ==
    IF str.isnull THEN <<EvDerefNull>>
    ELSE IF str.chars # <<>> THEN <<Emit("str", str.chars)>>
    ELSE <<Emit("empty", delims.empty)>>

\* a variant of output_basic_string that inserts the string whatever its size
output_basic_string_verbatim(str, delims, as_sub) ==
    <<Emit("str", str.chars)>>

\* basic_string: if (str.size()) out << str; else out << delims.empty;
output_basic_string(str, delims, as_sub) ==
    IF Len(str.chars) # 0 THEN <<Emit("str", str.chars)>>
    ELSE <<Emit("empty", delims.empty)>>

\* basic_string_view: if (str.size()) out << str; else out << delims.empty;
output_basic_string_view(str, delims, as_sub) ==
    IF Len(str.chars) # 0 THEN <<Emit("str", str.chars)>>
    ELSE <<Emit("empty", delims.empty)>>

\* a variant of output_pair that brackets the pair whatever as_sub
output_pair_bracketed(pair, delims, as_sub) ==
    <<Emit("pair_prefix", delims.pair_prefix)>>
    \o output(pair.elems[1], delims, TRUE)
    \o <<Emit("pair_delim", delims.pair_delim)>>
    \o output(pair.elems[2], delims, TRUE)
    \o <<Emit("pair_suffix", delims.pair_suffix)>>

\* a variant of output_pair that never inserts pair_suffix
output_pair_unclosed(pair, delims, as_sub) ==
    (IF as_sub THEN <<Emit("pair_prefix", delims.pair_prefix)>> ELSE <<>>)
    \o output(pair.elems[1], delims, TRUE)
    \o <<Emit("pair_delim", delims.pair_delim)>>
    \o output(pair.elems[2], delims, TRUE)

output_pair(pair, delims, as_sub) ==
    (IF as_sub THEN <<Emit("pair_prefix", delims.pair_prefix)>> ELSE <<>>)
    \o output(pair.elems[1], delims, TRUE)
    \o <<Emit("pair_delim", delims.pair_delim)>>
    \o output(pair.elems[2], delims, TRUE)
    \o (IF as_sub THEN <<Emit("pair_suffix", delims.pair_suffix)>> ELSE <<>>)

\* the fold of std::apply over the arguments from the i-th on: delim2 is the
\* local variable, a pair <<expression it was assigned from, its value>>
tuple_apply(args, i, delims, delim, delim2) ==
    IF i > Len(args) THEN <<>>
    ELSE <<Emit(delim2[1], delim2[2])>>
         \o output(args[i], delims, TRUE)
         \o tuple_apply(args, i + 1, delims, delim, delim)

\* a variant of output_tuple whose delim2 starts as delim: a delimiter
\* precedes the first element
output_tuple_leading(tuple, delims, as_sub) ==
    (IF as_sub THEN <<Emit("sub_prefix", delims.sub_prefix)>> ELSE <<>>)
    \o (IF Len(tuple.elems) = 0
        THEN <<Emit("empty", delims.empty)>>
        ELSE LET delim == IF as_sub THEN <<"sub_delim", delims.sub_delim>>
                          ELSE <<"top_delim", delims.top_delim>>
             IN  tuple_apply(tuple.elems, 1, delims, delim, delim))
    \o (IF as_sub THEN <<Emit("sub_suffix", delims.sub_suffix)>> ELSE <<>>)

output_tuple(tuple, delims, as_sub) ==
    (IF as_sub THEN <<Emit("sub_prefix", delims.sub_prefix)>> ELSE <<>>)
    \o (IF Len(tuple.elems) = 0
        THEN <<Emit("empty", delims.empty)>>
        ELSE LET delim == IF as_sub THEN <<"sub_delim", delims.sub_delim>>
                          ELSE <<"top_delim", delims.top_delim>>
             IN  tuple_apply(tuple.elems, 1, delims, delim, <<"literal", <<>>>>))
    \o (IF as_sub THEN <<Emit("sub_suffix", delims.sub_suffix)>> ELSE <<>>)

\* begin(range), end(range) and *itr: positions in the elements of a
\* container, the stored iterators of a sequence
ranges_begin(range) == IF range.type = "sequence" THEN range.begin_itr ELSE 1

\* a variant of end(range) that runs a sequence to the end of its array
ranges_end_of_array(range) ==
    IF range.type = "sequence" THEN Len(range.arr) + 1 ELSE Len(range.elems) + 1

ranges_end(range) ==
    IF range.type = "sequence" THEN range.end_itr ELSE Len(range.elems) + 1

Deref(range, itr) ==
    IF range.type = "sequence" THEN range.arr[itr] ELSE range.elems[itr]

\* while (++itr != end) {out << delim; output(*itr, delims, true, out);}
\* itr is the position already output
\* a variant of the loop that inserts sub_delim whatever delim is
range_while_sub(range, itr, delims, delim) ==
    IF itr + 1 = ranges_end(range) THEN <<>>
    ELSE <<Emit("sub_delim", delims.sub_delim)>>
         \o output(Deref(range, itr + 1), delims, TRUE)
         \o range_while(range, itr + 1, delims, delim)

range_while(range, itr, delims, delim) ==
    IF itr + 1 = ranges_end(range) THEN <<>>
    ELSE <<Emit(delim[1], delim[2])>>
         \o output(Deref(range, itr + 1), delims, TRUE)
         \o range_while(range, itr + 1, delims, delim)

\* a variant of output_range without the begin == end test: an empty range
\* inserts nothing between the prefix and the suffix
output_range_no_empty(range, delims, as_sub) ==
    (IF as_sub THEN <<Emit("sub_prefix", delims.sub_prefix)>> ELSE <<>>)
    \o (IF ranges_begin(range) = ranges_end(range)
        THEN <<>>
        ELSE LET delim == IF as_sub THEN <<"sub_delim", delims.sub_delim>>
                          ELSE <<"top_delim", delims.top_delim>>
             IN  output(Deref(range, ranges_begin(range)), delims, TRUE)
                 \o range_while(range, ranges_begin(range), delims, delim))
    \o (IF as_sub THEN <<Emit("sub_suffix", delims.sub_suffix)>> ELSE <<>>)

\* a variant of output_range that separates with top_delim at every depth
output_range_top_delim(range, delims, as_sub) ==
    (IF as_sub THEN <<Emit("sub_prefix", delims.sub_prefix)>> ELSE <<>>)
    \o (LET begin == ranges_begin(range)
            end == ranges_end(range)
        IN  IF begin = end
            THEN <<Emit("empty", delims.empty)>>
            ELSE LET delim == <<"top_delim", delims.top_delim>>
                 IN  output(Deref(range, begin), delims, TRUE)
                     \o range_while(range, begin, delims, delim))
    \o (IF as_sub THEN <<Emit("sub_suffix", delims.sub_suffix)>> ELSE <<>>)

output_range(range, delims, as_sub) ==
    (IF as_sub THEN <<Emit("sub_prefix", delims.sub_prefix)>> ELSE <<>>)
    \o (LET begin == ranges_begin(range)
            end == ranges_end(range)
        IN  IF begin = end
            THEN <<Emit("empty", delims.empty)>>
            ELSE LET delim == IF as_sub THEN <<"sub_delim", delims.sub_delim>>
                              ELSE <<"top_delim", delims.top_delim>>
                 IN  output(Deref(range, begin), delims, TRUE)
                     \o range_while(range, begin, delims, delim))
    \o (IF as_sub THEN <<Emit("sub_suffix", delims.sub_suffix)>> ELSE <<>>)

\* the overload set: the call output(x, delims, as_sub, out)
output(x, delims, as_sub) ==
    LET fn == Resolve(x.type)
    IN  IF fn \in {"ambiguous", "no_match"} THEN <<EvIllFormed(fn)>>
        ELSE <<EvCall(fn, x, as_sub)>>
             \o (CASE fn = "default" -> output_default(x, delims, as_sub)
                   [] fn = "char_ptr" -> output_char_ptr(x, delims, as_sub)
                   [] fn = "basic_string" -> output_basic_string(x, delims, as_sub)
                   [] fn = "basic_string_view" -> output_basic_string_view(x, delims, as_sub)
                   [] fn = "pair" -> output_pair(x, delims, as_sub)
                   [] fn = "tuple" -> output_tuple(x, delims, as_sub)
                   [] fn = "range" -> output_range(x, delims, as_sub))
             \o <<EvRet>>

(***************************************************************************)
(* The text a trace appends to the sink, in order of insertion.            *)
(***************************************************************************)
RECURSIVE Text(_)
Text(trace) ==
    IF trace = <<>> THEN <<>>
    ELSE IF Len(trace) = 1
         THEN (IF trace[1].ev = "emit" THEN trace[1].text ELSE <<>>)
    ELSE LET mid == Len(trace) \div 2
         IN  Text(SubSeq(trace, 1, mid)) \o Text(SubSeq(trace, mid + 1, Len(trace)))

\* the positions of the events ev of a trace
Positions(trace, ev) == {i \in 1..Len(trace) : trace[i].ev = ev}

First(S) == CHOOSE i \in S : \A j \in S : i <= j

\* the events of a trace before its first event ev
UpTo(trace, ev) ==
    IF Positions(trace, ev) = {} THEN trace
    ELSE SubSeq(trace, 1, First(Positions(trace, ev)) - 1)

(***************************************************************************)
(* The sink. Every `out << e` of helpers::output is a formatted insertion: *)
(* it pads its text on the left to the field width of the stream (the fill *)
(* character is a space, the adjustment right, unless changed) and sets    *)
(* the width to 0. out is the content of the sink, width its field width.  *)
(***************************************************************************)
Pad(text, w) ==
    IF Len(text) >= w THEN text
    ELSE [k \in 1..(w - Len(text)) |-> " "] \o text

\* the characters a trace inserts into a sink of field width w
Formatted(trace, w) ==
    IF Positions(trace, "emit") = {} THEN <<>>
    ELSE LET first == First(Positions(trace, "emit"))
         IN  Pad(trace[first].text, w) \o Text(SubSeq(trace, first + 1, Len(trace)))

\* the field width after the trace
WidthAfter(trace, w) == IF Positions(trace, "emit") = {} THEN w ELSE 0

\* a variant of ostream_insert that replaces the content of the sink
ostream_assign(content, w, trace) == Formatted(trace, w)

\* the content of the sink after the insertions of a trace
ostream_insert(content, w, trace) == content \o Formatted(trace, w)

HasEvent(trace, ev) == \E i \in 1..Len(trace) : trace[i].ev = ev

(***************************************************************************)
(* The outcomes of the undefined behaviour of *str for a null str: the     *)
(* read traps, or it yields whatever byte address 0 holds: zero (the       *)
(* string is taken as empty) or not (out << str inserts what follows).     *)
(***************************************************************************)
NullOutcomes == {"trap", "reads_zero", "reads_garbage"}

Garbage == <<"?">>

\* the events after a read through a null pointer that did not trap
RECURSIVE Resume(_, _, _)
Resume(trace, outcome, delims) ==
    IF trace = <<>> THEN <<>>
    ELSE IF Len(trace) = 1
         THEN IF trace[1].ev # "deref_null" THEN trace
              ELSE <<trace[1],
                     IF outcome = "reads_zero" THEN Emit("empty", delims.empty)
                     ELSE Emit("str", Garbage)>>
    ELSE LET mid == Len(trace) \div 2
         IN  Resume(SubSeq(trace, 1, mid), outcome, delims)
             \o Resume(SubSeq(trace, mid + 1, Len(trace)), outcome, delims)

ResolveNull(trace, outcome, delims) ==
    IF outcome = "trap" /\ Positions(trace, "deref_null") # {}
    THEN SubSeq(trace, 1, First(Positions(trace, "deref_null")))
    ELSE Resume(trace, outcome, delims)

(***************************************************************************)
(* The values and delimiters the model enumerates.                         *)
(***************************************************************************)
SeqsUpTo(S, n) == UNION {[1..k -> S] : k \in 0..n}

One == <<"O", "n", "e">>

Two == <<"T", "w", "o">>

Three == <<"T", "h", "r", "e", "e">>

StrTexts == {<<>>, One}

\* map<int, string> map = {{1, "One"}, {2, "Two"}, {3, "Three"}}
TestMap ==
    Range(<<Pair(IntVal(1), String(One)), Pair(IntVal(2), String(Two)),
            Pair(IntVal(3), String(Three))>>)

Atoms ==
    {IntVal(6), IntVal(123), IntVal(0 - 5), NullCharPtr}
    \cup {CharPtr(s) : s \in StrTexts}
    \cup {CharArray(s) : s \in StrTexts}
    \cup {String(s) : s \in StrTexts}
    \cup {StringView(s) : s \in StrTexts}

IntElems == {IntVal(1), IntVal(20)}

\* the entries of a map are pairs, sorted by key, the keys distinct
MapEntries == {Pair(k, v) : k \in IntElems, v \in {String(One), String(<<>>)}}

IsMap(es) == \A i \in 1..Len(es) - 1 : es[i].elems[1].n < es[i + 1].elems[1].n

\* the inserter on which chains of setter calls are explored: a container
\* of a map and an empty map, which shows every field of the delimiters
ChainObjs ==
    {Range(<<Range(<<Pair(IntVal(1), String(One)), Pair(IntVal(20), String(<<>>))>>),
             Range(<<>>)>>)}

Flat ==
    {Range(es) : es \in SeqsUpTo(IntElems, MaxLen)}
    \cup {Range(es) : es \in SeqsUpTo({String(<<>>), StringView(One)}, 1)}
    \cup {Range(<<CharPtr(One), CharPtr(<<>>)>>), Range(<<CharPtr(One), NullCharPtr>>)}
    \cup {Tuple(es) : es \in SeqsUpTo({IntVal(1), CharPtr(<<>>)}, MaxLen)}
    \cup {Pair(k, v) : k \in {IntVal(1), String(<<>>)}, v \in {String(One), CharPtr(<<>>)}}
    \cup {PrintableRange(<<IntVal(1)>>, <<"P">>), Opaque}

Nested ==
    {Range(es) : es \in {e \in SeqsUpTo(MapEntries, MaxLen) : IsMap(e)}}
    \cup {Range(es) : es \in SeqsUpTo({Range(<<>>), Range(<<IntVal(1), IntVal(20)>>)}, MaxLen)}
    \cup {Range(es) : es \in SeqsUpTo({Tuple(<<>>), Tuple(<<IntVal(1), String(One)>>)}, MaxLen)}
    \cup {Tuple(es) : es \in SeqsUpTo({Range(<<IntVal(1), IntVal(20)>>),
                                        Pair(IntVal(1), String(One))}, MaxLen)}
    \cup {Pair(a, b) : a \in {Range(<<>>), Range(<<IntVal(1), IntVal(20)>>)},
                       b \in {Tuple(<<>>), Pair(IntVal(1), String(One))}}
    \cup {Range(<<PrintableRange(<<IntVal(1)>>, <<"P">>)>>)}
    \cup {TestMap}
    \cup ChainObjs

Deep ==
    {Range(es) : es \in SeqsUpTo({Range(<<Range(<<IntVal(1)>>), Range(<<>>)>>),
                                  Range(<<Range(<<IntVal(1), IntVal(20)>>)>>)}, MaxLen)}
    \cup {Range(<<Range(<<Pair(IntVal(1), Tuple(<<>>)), Pair(IntVal(20), Tuple(<<IntVal(1)>>))>>)>>)}

\* vector<vector<vector<int>>> vectors of src/test1.cpp:121-125
TestVectors ==
    Range(<<Range(<<Range(<<IntVal(1), IntVal(2), IntVal(3)>>), Range(<<IntVal(4)>>)>>),
            Range(<<Range(<<IntVal(5), IntVal(6), IntVal(7), IntVal(8)>>),
                    Range(<<IntVal(9), IntVal(10)>>)>>),
            Range(<<Range(<<IntVal(11), IntVal(12)>>),
                    Range(<<IntVal(13), IntVal(14), IntVal(15)>>)>>)>>)

Values == Atoms \cup Flat \cup Nested \cup Deep \cup {TestVectors}

\* auto arr = array{7, 3, 11, 1, 9, 5}; sort(arr.begin(), arr.end());
SortedArr == <<IntVal(1), IntVal(3), IntVal(5), IntVal(7), IntVal(9), IntVal(11)>>

\* the iterator pairs begin <= end into an array: positions from
\* arr.begin() = 1 to arr.end() = Len(arr) + 1
IteratorPairs(arr) ==
    {p \in (1..Len(arr) + 1) \X (1..Len(arr) + 1) : p[1] <= p[2]}

\* every field differs from every other field and from its default
DistinctDelims ==
    [top_delim   |-> <<";">>,
     sub_prefix  |-> <<"{">>,
     sub_delim   |-> <<"|">>,
     sub_suffix  |-> <<"}">>,
     pair_prefix |-> <<"<">>,
     pair_delim  |-> <<"=">>,
     pair_suffix |-> <<">">>,
     top_as_sub  |-> FALSE,
     empty       |-> <<"~">>]

\* the delimiters of src/test1.cpp:102-106
TestDelims ==
    [basic_delimiters EXCEPT
        !.pair_prefix = <<"(", "K", ":", " ">>,
        !.pair_delim = <<",", " ", "V", ":", " ">>,
        !.pair_suffix = <<")">>,
        !.top_delim = <<"\n">>]

\* the delimiters of delimited(vectors).top_delim(" | "), src/test1.cpp:127
BarDelims == [basic_delimiters EXCEPT !.top_delim = <<" ", "|", " ">>]

DelimsArgs ==
    {DistinctDelims, [DistinctDelims EXCEPT !.top_as_sub = TRUE],
     [basic_delimiters EXCEPT !.top_as_sub = TRUE], TestDelims, BarDelims}

\* the inserters inserted after out << std::setw(w): a number, a pair, and
\* the tuples and containers of the same numbers
WidthObjs ==
    {IntVal(6), Pair(IntVal(1), String(One))}
    \cup {Tuple(es) : es \in SeqsUpTo({IntVal(1)}, MaxLen)}
    \cup {Range(es) : es \in SeqsUpTo({IntVal(1)}, MaxLen)}

Widths == {3}

\* the arguments of delimiter and top_delim
StrArgs == {<<"#">>, <<>>}

\* the argument of the other string setters; "" is a legal argument, as in
\* sub_prefix("").sub_suffix("") of src/test1.cpp:78
StrArg(op) == IF op \in {"sub_prefix", "sub_suffix"} THEN <<>> ELSE <<"#">>

(***************************************************************************)
(* The state machine: an inserter is made by delimited(), configured by    *)
(* its value setters and inserted into the sink by operator<<, as in       *)
(* out << delimited(obj).delimiter(" - ").empty("Empty"), and may be       *)
(* inserted again.                                                         *)
(***************************************************************************)
NotSet == <<>>

Op(op, arg) == [op |-> op, arg |-> arg, before |-> di.delims]

Init ==
    /\ di = [obj |-> NoObj, delims |-> basic_delimiters]
    /\ status = "none"
    /\ out = <<>>
    /\ width = 0
    /\ calls = <<>>
    /\ ctor = [op |-> "none", delims |-> basic_delimiters]
    /\ lastop = [op |-> "none", arg |-> <<>>, before |-> basic_delimiters]
    /\ named = [f \in Fields |-> NotSet]
    /\ nsetters = 0

\* inserter(const Object& obj_): delims is default-initialized
inserter(obj_) == [obj |-> obj_, delims |-> basic_delimiters]

\* inserter(const Object& obj_, const basic_delimiters& delims_)
inserter_delims(obj_, delims_) == [obj |-> obj_, delims |-> delims_]

\* delimited(obj)
delimited(obj_) ==
    /\ status = "none"
    /\ di' = inserter(obj_)
    /\ status' = "ready"
    /\ ctor' = [op |-> "delimited", delims |-> di'.delims]
    /\ lastop' = Op("delimited", <<>>)
    /\ UNCHANGED <<out, width, calls, named, nsetters>>

\* delimited(obj, delims)
delimited_delims(obj_, delims_) ==
    /\ status = "none"
    /\ di' = inserter_delims(obj_, delims_)
    /\ status' = "ready"
    /\ ctor' = [op |-> "delimited_delims", delims |-> di'.delims]
    /\ lastop' = Op("delimited_delims", <<>>)
    /\ UNCHANGED <<out, width, calls, named, nsetters>>

\* sequence_inserter(Iterator begin, Iterator end): the base inserter refers
\* to the member seq, which the constructor body then fills
sequence_inserter(arr, begin, end) == inserter(sequence(arr, begin, end))

\* sequence_inserter(Iterator begin, Iterator end, const basic_delimiters&)
sequence_inserter_delims(arr, begin, end, delims_) ==
    inserter_delims(sequence(arr, begin, end), delims_)

\* delimited(begin, end)
delimited_sequence(arr, begin, end) ==
    /\ status = "none"
    /\ di' = sequence_inserter(arr, begin, end)
    /\ status' = "ready"
    /\ ctor' = [op |-> "delimited_sequence", delims |-> di'.delims]
    /\ lastop' = Op("delimited_sequence", <<>>)
    /\ UNCHANGED <<out, width, calls, named, nsetters>>

\* delimited(begin, end, delims)
delimited_sequence_delims(arr, begin, end, delims_) ==
    /\ status = "none"
    /\ di' = sequence_inserter_delims(arr, begin, end, delims_)
    /\ status' = "ready"
    /\ ctor' = [op |-> "delimited_sequence_delims", delims |-> di'.delims]
    /\ lastop' = Op("delimited_sequence_delims", <<>>)
    /\ UNCHANGED <<out, width, calls, named, nsetters>>

\* the fields a setter is documented to set
Names(op) ==
    CASE op = "delimiter" -> {"top_delim", "sub_delim"}
      [] op = "as_sub" -> {"top_as_sub"}
      [] OTHER -> {op}

\* what every value setter does besides its assignments: it returns *this
Setter(op, arg, delims_) ==
    /\ status = "ready"
    /\ di.obj \in ChainObjs
    /\ calls = <<>>
    /\ nsetters < MaxChain
    /\ di' = [di EXCEPT !.delims = delims_]
    /\ lastop' = Op(op, <<arg>>)
    /\ named' = [f \in Fields |-> IF f \in Names(op) THEN <<arg>> ELSE named[f]]
    /\ nsetters' = nsetters + 1
    /\ UNCHANGED <<status, out, width, calls, ctor>>

\* a variant of delimiter that sets pair_delim too
inserter_delimiter_all(str) ==
    Setter("delimiter", str,
           [di.delims EXCEPT !.top_delim = str, !.sub_delim = str, !.pair_delim = str])

inserter_delimiter(str) ==
    Setter("delimiter", str, [di.delims EXCEPT !.top_delim = str, !.sub_delim = str])

inserter_top_delim(str) ==
    Setter("top_delim", str, [di.delims EXCEPT !.top_delim = str])

inserter_sub_prefix(str) ==
    Setter("sub_prefix", str, [di.delims EXCEPT !.sub_prefix = str])

inserter_sub_delim(str) ==
    Setter("sub_delim", str, [di.delims EXCEPT !.sub_delim = str])

inserter_sub_suffix(str) ==
    Setter("sub_suffix", str, [di.delims EXCEPT !.sub_suffix = str])

inserter_pair_prefix(str) ==
    Setter("pair_prefix", str, [di.delims EXCEPT !.pair_prefix = str])

inserter_pair_delim(str) ==
    Setter("pair_delim", str, [di.delims EXCEPT !.pair_delim = str])

inserter_pair_suffix(str) ==
    Setter("pair_suffix", str, [di.delims EXCEPT !.pair_suffix = str])

inserter_top_as_sub(b) ==
    Setter("top_as_sub", b, [di.delims EXCEPT !.top_as_sub = b])

inserter_as_sub(b) ==
    Setter("as_sub", b, [di.delims EXCEPT !.top_as_sub = b])

inserter_empty(str) ==
    Setter("empty", str, [di.delims EXCEPT !.empty = str])

\* a variant of operator<< that starts the render with as_sub = false
operator_insert_output_top(inserter_) ==
    output(inserter_.obj, inserter_.delims, FALSE)

\* a variant of operator<< with a flag that survives the call: every call
\* after the first renders as_sub
operator_insert_output_static(inserter_) ==
    output(inserter_.obj, inserter_.delims, inserter_.delims.top_as_sub \/ calls # <<>>)

\* operator<<(out, di): output(di.obj, di.delims, di.delims.top_as_sub, out)
operator_insert_output(inserter_) ==
    output(inserter_.obj, inserter_.delims, inserter_.delims.top_as_sub)

\* One operator<< call. A call that does not compile is rejected at build
\* time; a read through a null pointer that traps ends the process.
operator_insert ==
    /\ status = "ready"
    /\ Len(calls) < MaxRenders
    /\ lastop' = Op("operator<<", <<>>)
    /\ UNCHANGED <<di, ctor, named, nsetters>>
    /\ LET trace0 == operator_insert_output(di)
       IN  IF HasEvent(trace0, "ill_formed")
           THEN /\ status' = "rejected"
                /\ UNCHANGED <<out, width, calls>>
           ELSE \E outcome \in (IF HasEvent(trace0, "deref_null")
                                THEN NullOutcomes ELSE {"defined"}) :
                   IF outcome = "trap"
                   THEN /\ status' = "crashed"
                        /\ out' = ostream_insert(out, width, UpTo(trace0, "deref_null"))
                        /\ width' = WidthAfter(UpTo(trace0, "deref_null"), width)
                        /\ UNCHANGED calls
                   ELSE LET trace == ResolveNull(trace0, outcome, di.delims)
                        IN  /\ out' = ostream_insert(out, width, trace)
                            /\ width' = WidthAfter(trace, width)
                            /\ calls' = Append(calls,
                                   [obj |-> di.obj, delims |-> di.delims,
                                    before |-> out, width |-> width,
                                    after |-> ostream_insert(out, width, trace),
                                    trace |-> trace, outcome |-> outcome])
                            /\ UNCHANGED status

\* a fresh sink: std::stringstream ss; taken between the insertions of an
\* inserter used as constructed
stringstream ==
    /\ status = "ready"
    /\ nsetters = 0
    /\ out # <<>>
    /\ Len(calls) < MaxRenders
    /\ out' = <<>>
    /\ width' = 0
    /\ lastop' = Op("stringstream", <<>>)
    /\ UNCHANGED <<di, status, calls, ctor, named, nsetters>>

\* out << std::setw(w), before an insertion of the inserter
setw(w) ==
    /\ status = "ready"
    /\ di.obj \in WidthObjs
    /\ Len(calls) < MaxRenders
    /\ width = 0
    /\ width' = w
    /\ lastop' = Op("setw", <<>>)
    /\ UNCHANGED <<di, status, out, calls, ctor, named, nsetters>>

Next ==
    \/ \E v \in Values : delimited(v)
    \/ \E v \in Values, d \in DelimsArgs : delimited_delims(v, d)
    \/ \E p \in IteratorPairs(SortedArr) : delimited_sequence(SortedArr, p[1], p[2])
    \/ \E p \in IteratorPairs(SortedArr), d \in DelimsArgs :
          delimited_sequence_delims(SortedArr, p[1], p[2], d)
    \/ \E str \in StrArgs : inserter_delimiter(str)
    \/ \E str \in StrArgs : inserter_top_delim(str)
    \/ inserter_sub_prefix(StrArg("sub_prefix"))
    \/ inserter_sub_delim(StrArg("sub_delim"))
    \/ inserter_sub_suffix(StrArg("sub_suffix"))
    \/ inserter_pair_prefix(StrArg("pair_prefix"))
    \/ inserter_pair_delim(StrArg("pair_delim"))
    \/ inserter_pair_suffix(StrArg("pair_suffix"))
    \/ \E b \in BOOLEAN : inserter_top_as_sub(b)
    \/ \E b \in BOOLEAN : inserter_as_sub(b)
    \/ inserter_empty(StrArg("empty"))
    \/ operator_insert
    \/ stringstream
    \/ \E w \in Widths : setw(w)

Spec == Init /\ [][Next]_vars

(***************************************************************************)
(* Reading a recorded trace: the segment of one call, from its entry to    *)
(* its return, and the items of a call: its own insertions and the calls   *)
(* it makes, in order.                                                     *)
(***************************************************************************)
RECURSIVE MatchRet(_, _, _)
MatchRet(trace, j, depth) ==
    IF trace[j].ev = "call" THEN MatchRet(trace, j + 1, depth + 1)
    ELSE IF trace[j].ev = "ret"
         THEN IF depth = 1 THEN j ELSE MatchRet(trace, j + 1, depth - 1)
    ELSE MatchRet(trace, j + 1, depth)

Segment(trace, i) == SubSeq(trace, i, MatchRet(trace, i + 1, 1))

Item(kind, what, text, seg) == [kind |-> kind, what |-> what, text |-> text, seg |-> seg]

RECURSIVE ItemsFrom(_, _)
ItemsFrom(seg, j) ==
    IF j >= Len(seg) THEN <<>>
    ELSE IF seg[j].ev = "call"
         THEN LET sub == Segment(seg, j)
              IN  <<Item("call", "", Text(sub), sub)>> \o ItemsFrom(seg, j + Len(sub))
    ELSE <<Item(seg[j].ev, seg[j].what, seg[j].text, <<>>)>> \o ItemsFrom(seg, j + 1)

Items(seg) == ItemsFrom(seg, 2)

\* the calls an item list makes, in order
CallItems(items) == SelectSeq(items, LAMBDA it : it.kind = "call")

RECURSIVE Concat(_)
Concat(texts) == IF texts = <<>> THEN <<>> ELSE Head(texts) \o Concat(Tail(texts))

\* texts joined by a delimiter: n texts, n - 1 copies of the delimiter
RECURSIVE Join(_, _)
Join(texts, delim) ==
    IF texts = <<>> THEN <<>>
    ELSE IF Len(texts) = 1 THEN texts[1]
    ELSE texts[1] \o delim \o Join(Tail(texts), delim)

Rendered == calls # <<>>

LastCall == calls[Len(calls)]

\* the entries of the calls of the last completed operator<< call
CallsOf(trace) == {i \in 1..Len(trace) : trace[i].ev = "call"}

IsComposite(x) == x.type \in {"tuple", "range"}

(***************************************************************************)
(* C1 (as amended). An empty range or a zero-arity tuple renders as        *)
(* delims.empty alone when as_sub is false, and as sub_prefix, delims.empty *)
(* and sub_suffix when as_sub is true, outermost or nested.                *)
(***************************************************************************)
EmptyCompositeText ==
    Rendered =>
        LET c == LastCall
        IN  \A i \in CallsOf(c.trace) :
               LET e == c.trace[i]
               IN  (IsComposite(e.arg) /\ e.arg.elems = <<>>) =>
                      Text(Segment(c.trace, i)) =
                          IF e.as_sub
                          THEN c.delims.sub_prefix \o c.delims.empty \o c.delims.sub_suffix
                          ELSE c.delims.empty

\* C1 as stated: delims.empty and nothing else, whatever as_sub
EmptyCompositeOnlyEmpty ==
    Rendered =>
        LET c == LastCall
        IN  \A i \in CallsOf(c.trace) :
               LET e == c.trace[i]
               IN  (IsComposite(e.arg) /\ e.arg.elems = <<>>) =>
                      Text(Segment(c.trace, i)) = c.delims.empty

\* an empty range was rendered as an element, inside brackets that show
EmptyCompositeNested ==
    /\ Rendered
    /\ \E i \in CallsOf(LastCall.trace) :
          /\ i > 1
          /\ LastCall.trace[i].arg = Range(<<>>)
          /\ LastCall.trace[i].as_sub
          /\ LastCall.delims.sub_prefix # <<>>

(***************************************************************************)
(* C2. A pair renders as its first component, pair_delim, its second       *)
(* component, both components rendered as nested elements, inside          *)
(* pair_prefix and pair_suffix exactly when as_sub is true; it inserts     *)
(* nothing else, so neither top_delim nor sub_delim.                       *)
(***************************************************************************)
Whats(items) == [k \in 1..Len(items) |-> <<items[k].kind, items[k].what>>]

NestedText(x, c) == Text(ResolveNull(output(x, c.delims, TRUE), c.outcome, c.delims))

PairText ==
    Rendered =>
        LET c == LastCall
        IN  \A i \in CallsOf(c.trace) :
               LET e == c.trace[i]
                   seg == Segment(c.trace, i)
                   kids == CallItems(Items(seg))
                   pre == IF e.as_sub THEN c.delims.pair_prefix ELSE <<>>
                   suf == IF e.as_sub THEN c.delims.pair_suffix ELSE <<>>
               IN  e.arg.type = "pair" =>
                      /\ Whats(Items(seg)) =
                            (IF e.as_sub THEN <<(<<"emit", "pair_prefix">>)>> ELSE <<>>)
                            \o <<(<<"call", "">>), (<<"emit", "pair_delim">>), (<<"call", "">>)>>
                            \o (IF e.as_sub THEN <<(<<"emit", "pair_suffix">>)>> ELSE <<>>)
                      /\ \A k \in 1..2 :
                            /\ kids[k].seg[1].arg = e.arg.elems[k]
                            /\ kids[k].seg[1].as_sub
                      /\ Text(seg) =
                            pre \o NestedText(e.arg.elems[1], c) \o c.delims.pair_delim
                            \o NestedText(e.arg.elems[2], c) \o suf

\* a pair was rendered outermost without brackets, with delimiters that
\* all differ
PairOutermost ==
    /\ Rendered
    /\ LastCall.obj = Pair(IntVal(1), String(One))
    /\ ~LastCall.trace[1].as_sub
    /\ LastCall.delims = DistinctDelims
    /\ out = <<"1", "=", "O", "n", "e">>

(***************************************************************************)
(* C3. A tuple or range of n >= 1 elements renders as its elements in      *)
(* order, each as a nested element, joined by n - 1 copies of top_delim    *)
(* (as_sub false) or sub_delim (as_sub true), inside sub_prefix and        *)
(* sub_suffix exactly when as_sub is true.                                 *)
(***************************************************************************)
CountWhat(items, what) ==
    Cardinality({k \in 1..Len(items) : items[k].kind = "emit" /\ items[k].what = what})

CompositeText ==
    Rendered =>
        LET c == LastCall
        IN  \A i \in CallsOf(c.trace) :
               LET e == c.trace[i]
                   seg == Segment(c.trace, i)
                   items == Items(seg)
                   kids == CallItems(items)
                   n == Len(e.arg.elems)
                   delim == IF e.as_sub THEN "sub_delim" ELSE "top_delim"
                   other == IF e.as_sub THEN "top_delim" ELSE "sub_delim"
               IN  (IsComposite(e.arg) /\ n >= 1) =>
                      /\ Len(kids) = n
                      /\ \A k \in 1..n :
                            /\ kids[k].seg[1].arg = e.arg.elems[k]
                            /\ kids[k].seg[1].as_sub
                      /\ CountWhat(items, delim) = n - 1
                      /\ CountWhat(items, other) = 0
                      /\ Text(seg) =
                            (IF e.as_sub THEN c.delims.sub_prefix ELSE <<>>)
                            \o Join([k \in 1..n |-> NestedText(e.arg.elems[k], c)],
                                    c.delims[delim])
                            \o (IF e.as_sub THEN c.delims.sub_suffix ELSE <<>>)

\* a container of tuples was rendered: top_delim between the tuples,
\* sub_delim inside them
CompositeOfComposites ==
    /\ Rendered
    /\ LastCall.obj = Range(<<Tuple(<<IntVal(1), String(One)>>), Tuple(<<>>)>>)
    /\ LastCall.delims = DistinctDelims
    /\ out = <<"{", "1", "|", "O", "n", "e", "}", ";", "{", "~", "}">>

(***************************************************************************)
(* C4. A string (a non-null character pointer, a character array, a        *)
(* basic_string or a basic_string_view) renders as its characters, or as   *)
(* delims.empty when it has none, by one insertion and nothing else,       *)
(* whatever as_sub, outermost or nested.                                   *)
(***************************************************************************)
StringTypes == {"const_char_ptr", "char_array", "basic_string", "basic_string_view"}

StringText ==
    Rendered =>
        LET c == LastCall
        IN  \A i \in CallsOf(c.trace) :
               LET e == c.trace[i]
                   seg == Segment(c.trace, i)
               IN  (e.arg.type \in StringTypes /\ ~e.arg.isnull) =>
                      /\ Len(Items(seg)) = 1
                      /\ Items(seg)[1].kind = "emit"
                      /\ Text(seg) = IF e.arg.chars # <<>> THEN e.arg.chars
                                     ELSE c.delims.empty

\* an empty basic_string was rendered as the second component of a nested
\* pair
StringNestedEmpty ==
    /\ Rendered
    /\ LastCall.delims.empty = <<"~">>
    /\ \E i \in CallsOf(LastCall.trace) :
          /\ i > 1
          /\ LastCall.trace[i].arg = String(<<>>)
          /\ LastCall.trace[i].as_sub
          /\ Text(Segment(LastCall.trace, i)) = <<"~">>

(***************************************************************************)
(* C5. operator<< starts the render with as_sub = delims.top_as_sub and    *)
(* every call on a component passes as_sub = true; so with top_as_sub the  *)
(* outermost value renders as the text it contributes as an element of an  *)
(* enclosing range: the pair (1, "One") as [1: One].                       *)
(***************************************************************************)
EntryFlag ==
    Rendered =>
        LET c == LastCall
            enclosing == Range(<<c.obj, c.obj>>)
        IN  /\ c.trace[1].ev = "call"
            /\ c.trace[1].as_sub = c.delims.top_as_sub
            /\ \A i \in CallsOf(c.trace) : i > 1 => c.trace[i].as_sub
            /\ c.delims.top_as_sub =>
                  Text(ResolveNull(output(enclosing, c.delims, FALSE), c.outcome, c.delims))
                      = Text(c.trace) \o c.delims.top_delim \o Text(c.trace)
            /\ (/\ c.obj = Pair(IntVal(1), String(One))
                /\ c.delims = [basic_delimiters EXCEPT !.top_as_sub = TRUE]) =>
                  Text(c.trace) = <<"[", "1", ":", " ", "O", "n", "e", "]">>

\* the pair (1, "One") was rendered outermost with top_as_sub
EntryFlagPair ==
    /\ Rendered
    /\ LastCall.obj = Pair(IntVal(1), String(One))
    /\ LastCall.delims = [basic_delimiters EXCEPT !.top_as_sub = TRUE]
    /\ LastCall.trace[1].as_sub
    /\ out = <<"[", "1", ":", " ", "O", "n", "e", "]">>

(***************************************************************************)
(* C6. A map of n >= 1 entries, rendered outermost, is its entries in      *)
(* order, each pair_prefix key pair_delim value pair_suffix, joined by     *)
(* top_delim and unbracketed when top_as_sub is false, joined by sub_delim *)
(* inside sub_prefix and sub_suffix when it is true; with the defaults     *)
(* {1: One, 2: Two, 3: Three} is [1: One], [2: Two], [3: Three].           *)
(***************************************************************************)
IsMapLike(x) ==
    /\ x.type = "range"
    /\ Len(x.elems) >= 1
    /\ \A k \in 1..Len(x.elems) :
          /\ x.elems[k].type = "pair"
          /\ x.elems[k].elems[1].type = "int"
          /\ x.elems[k].elems[2].type = "basic_string"

EntryText(entry, delims) ==
    delims.pair_prefix \o IntText(entry.elems[1].n) \o delims.pair_delim
    \o (IF entry.elems[2].chars # <<>> THEN entry.elems[2].chars ELSE delims.empty)
    \o delims.pair_suffix

TestMapText ==
    <<"[", "1", ":", " ", "O", "n", "e", "]", ",", " ",
      "[", "2", ":", " ", "T", "w", "o", "]", ",", " ",
      "[", "3", ":", " ", "T", "h", "r", "e", "e", "]">>

MapText ==
    (Rendered /\ IsMapLike(LastCall.obj)) =>
        LET c == LastCall
            entries == [k \in 1..Len(c.obj.elems) |-> EntryText(c.obj.elems[k], c.delims)]
        IN  /\ Text(c.trace) =
                  IF c.delims.top_as_sub
                  THEN c.delims.sub_prefix \o Join(entries, c.delims.sub_delim)
                       \o c.delims.sub_suffix
                  ELSE Join(entries, c.delims.top_delim)
            /\ (c.obj = TestMap /\ c.delims = basic_delimiters) =>
                  Text(c.trace) = TestMapText

\* the map of src/test1.cpp:32 was rendered with the default delimiters
MapDefaults ==
    /\ Rendered
    /\ LastCall.obj = TestMap
    /\ LastCall.delims = basic_delimiters
    /\ out = TestMapText

(***************************************************************************)
(* C7. Rendering a null character pointer does not dereference it: the     *)
(* render completes and a placeholder text stands in the output in place   *)
(* of the string.                                                          *)
(***************************************************************************)
RECURSIVE ContainsNull(_)
ContainsNull(x) ==
    \/ x.isnull
    \/ \E k \in 1..Len(x.elems) : ContainsNull(x.elems[k])

NullPointerPlaceholder ==
    (lastop.op = "operator<<" /\ ContainsNull(di.obj)) =>
        /\ status = "ready"
        /\ Rendered
        /\ ~HasEvent(LastCall.trace, "deref_null")
        /\ \A i \in CallsOf(LastCall.trace) :
              LastCall.trace[i].arg.isnull => Text(Segment(LastCall.trace, i)) # <<>>

(***************************************************************************)
(* C8. Every value whose type falls in one of the five categories is       *)
(* rendered, by the strategy of the first category it falls in, in the     *)
(* order String, Pair, FixedTuple, HomogeneousSequence, Default; a range   *)
(* that is also insertable is rendered as a HomogeneousSequence, never     *)
(* rejected.                                                               *)
(***************************************************************************)
Category(type) ==
    IF type \in StringTypes THEN "String"
    ELSE IF type = "pair" THEN "Pair"
    ELSE IF type = "tuple" THEN "FixedTuple"
    ELSE IF ranges_range(type) THEN "HomogeneousSequence"
    ELSE IF ostream_insertable(type) THEN "Default"
    ELSE "none"

Strategy(fn) ==
    CASE fn \in {"char_ptr", "basic_string", "basic_string_view"} -> "String"
      [] fn = "pair" -> "Pair"
      [] fn = "tuple" -> "FixedTuple"
      [] fn = "range" -> "HomogeneousSequence"
      [] fn = "default" -> "Default"

RECURSIVE Categorized(_)
Categorized(x) ==
    /\ Category(x.type) # "none"
    /\ \A k \in 1..Len(x.elems) : Categorized(x.elems[k])

StrategyByPrecedence ==
    (lastop.op = "operator<<" /\ Categorized(di.obj)) =>
        /\ status # "rejected"
        /\ Rendered =>
              \A i \in CallsOf(LastCall.trace) :
                  Strategy(LastCall.trace[i].fn) = Category(LastCall.trace[i].arg.type)

(***************************************************************************)
(* C9. A value setter sets the fields it names to its argument and leaves  *)
(* every other field as it was: delimiter sets top_delim and sub_delim and *)
(* not pair_delim, as_sub and top_as_sub set top_as_sub, every other       *)
(* setter the field of its name. After any chain of setters a field holds  *)
(* the argument of the last setter naming it, or what the constructor set  *)
(* (the default, for delimited(obj)) if none does.                         *)
(***************************************************************************)
SetterOps ==
    {"delimiter", "top_delim", "sub_prefix", "sub_delim", "sub_suffix",
     "pair_prefix", "pair_delim", "pair_suffix", "top_as_sub", "as_sub", "empty"}

SetterFrame ==
    /\ lastop.op \in SetterOps =>
          \A f \in Fields :
              di.delims[f] = IF f \in Names(lastop.op) THEN lastop.arg[1]
                             ELSE lastop.before[f]
    /\ status # "none" =>
          \A f \in Fields :
              di.delims[f] = IF named[f] # NotSet THEN named[f][1] ELSE ctor.delims[f]
    /\ ctor.op = "delimited" => ctor.delims = basic_delimiters

\* top_delim("") then delimiter("#") on a default inserter: delimiter
\* overrides top_delim and leaves pair_delim at its default
SetterChain ==
    /\ ctor.op = "delimited"
    /\ nsetters = 2
    /\ lastop.op = "delimiter"
    /\ lastop.arg = <<(<<"#">>)>>
    /\ lastop.before.top_delim = <<>>
    /\ di.delims.top_delim = <<"#">>
    /\ di.delims.sub_delim = <<"#">>
    /\ di.delims.pair_delim = pair_delim_default

ScalarText ==
    Rendered =>
        LET c == LastCall
        IN  \A i \in CallsOf(c.trace) :
               LET e == c.trace[i]
                   seg == Segment(c.trace, i)
               IN  e.arg.type = "int" =>
                      /\ e.fn = "default"
                      /\ Whats(Items(seg)) = <<(<<"emit", "x">>)>>
                      /\ Text(seg) = IntText(e.arg.n)
                      /\ \A d \in DelimsArgs \cup {basic_delimiters, c.delims}, b \in BOOLEAN :
                            Text(output(e.arg, d, b)) = Text(seg)
                      /\ i = 1 => c.after = c.before \o Pad(IntText(e.arg.n), c.width)
                      /\ e.arg = IntVal(123) => Text(seg) = <<"1", "2", "3">>
                      /\ e.arg = IntVal(0 - 5) => Text(seg) = <<"-", "5">>

\* delimited(123).as_sub() with delimiters that all differ, and a number
\* as an element of a nested container
ScalarAsSub ==
    /\ Rendered
    /\ LastCall.obj = IntVal(123)
    /\ LastCall.delims = [DistinctDelims EXCEPT !.top_as_sub = TRUE]
    /\ LastCall.trace[1].as_sub
    /\ LastCall.after = LastCall.before \o <<"1", "2", "3">>

(***************************************************************************)
(* C12 as stated: when begin == end the output of delimited(begin, end) is *)
(* delims.empty.                                                           *)
(***************************************************************************)
SequenceEmptyOnlyEmpty ==
    (/\ Rendered
     /\ LastCall.obj.type = "sequence"
     /\ LastCall.obj.begin_itr = LastCall.obj.end_itr) =>
        Text(LastCall.trace) = LastCall.delims.empty

(***************************************************************************)
(* C12 (as amended). delimited(begin, end) renders the elements of         *)
(* [begin, end) in order and no other element of the array, by the rule of *)
(* a container holding those elements: joined by top_delim, or by          *)
(* sub_delim inside sub_prefix and sub_suffix when top_as_sub is true;     *)
(* when begin == end it renders delims.empty, inside sub_prefix and        *)
(* sub_suffix when top_as_sub is true. For the sorted array 1, 3, 5, 7, 9, *)
(* 11, begin + 1 and end - 1 the output is 3, 5, 7, 9.                     *)
(***************************************************************************)
SequenceText ==
    (Rendered /\ LastCall.obj.type = "sequence") =>
        LET c == LastCall
            begin == c.obj.begin_itr
            end == c.obj.end_itr
            held == SubSeq(c.obj.arr, begin, end - 1)
            kids == CallItems(Items(c.trace))
            as_sub == c.delims.top_as_sub
            delim == IF as_sub THEN c.delims.sub_delim ELSE c.delims.top_delim
        IN  /\ c.trace[1].fn = "range"
            /\ c.trace[1].as_sub = as_sub
            /\ Len(kids) = end - begin
            /\ \A k \in 1..Len(kids) :
                  /\ kids[k].seg[1].arg = c.obj.arr[begin + k - 1]
                  /\ kids[k].text = IntText(c.obj.arr[begin + k - 1].n)
            /\ Text(c.trace) = Text(output(Range(held), c.delims, as_sub))
            /\ Text(c.trace) =
                  (IF as_sub THEN c.delims.sub_prefix ELSE <<>>)
                  \o (IF begin = end THEN c.delims.empty
                      ELSE Join([k \in 1..Len(held) |-> IntText(held[k].n)], delim))
                  \o (IF as_sub THEN c.delims.sub_suffix ELSE <<>>)
            /\ (begin = 2 /\ end = 6 /\ c.delims = basic_delimiters) =>
                  Text(c.trace) = <<"3", ",", " ", "5", ",", " ", "7", ",", " ", "9">>

\* delimited(arr.begin() + 1, arr.end() - 1) on the sorted array
SequenceMiddle ==
    /\ Rendered
    /\ LastCall.obj = sequence(SortedArr, 2, 6)
    /\ ctor.op = "delimited_sequence"
    /\ LastCall.before = <<>>
    /\ out = <<"3", ",", " ", "5", ",", " ", "7", ",", " ", "9">>

(***************************************************************************)
(* C13. top_delim is inserted only by the outermost call, only when that   *)
(* call renders a tuple or a range with top_as_sub false, and then once    *)
(* between every two of its elements; every tuple or range rendered by a   *)
(* nested call separates its elements by sub_delim, at any depth. With     *)
(* top_delim " | " the three-level vectors of src/test1.cpp:121-127 render *)
(* with two " | " and every inner separator ", ".                          *)
(***************************************************************************)
ElemCount(x) ==
    IF x.type = "sequence" THEN x.end_itr - x.begin_itr ELSE Len(x.elems)

EmitsOf(trace, what) ==
    {j \in 1..Len(trace) : trace[j].ev = "emit" /\ trace[j].what = what}

\* the places where text holds the one-character string ch
Occurrences(text, ch) == {k \in 1..Len(text) : text[k] = ch}

TestVectorsBarText ==
    <<"(", "(", "1", ",", " ", "2", ",", " ", "3", ")", ",", " ", "(",
      "4", ")", ")", " ", "|", " ", "(", "(", "5", ",", " ", "6", ",",
      " ", "7", ",", " ", "8", ")", ",", " ", "(", "9", ",", " ", "1",
      "0", ")", ")", " ", "|", " ", "(", "(", "1", "1", ",", " ", "1",
      "2", ")", ",", " ", "(", "1", "3", ",", " ", "1", "4", ",", " ",
      "1", "5", ")", ")">>

SeparatorDepth ==
    Rendered =>
        LET c == LastCall
            top == CountWhat(Items(c.trace), "top_delim")
            outer == c.trace[1]
        IN  /\ Cardinality(EmitsOf(c.trace, "top_delim")) = top
            /\ top = (IF /\ outer.fn \in {"tuple", "range"}
                         /\ ~c.delims.top_as_sub
                         /\ ElemCount(outer.arg) >= 1
                      THEN ElemCount(outer.arg) - 1 ELSE 0)
            /\ \A j \in EmitsOf(c.trace, "top_delim") : c.trace[j].text = c.delims.top_delim
            /\ \A j \in EmitsOf(c.trace, "sub_delim") : c.trace[j].text = c.delims.sub_delim
            /\ \A i \in CallsOf(c.trace) :
                  LET e == c.trace[i]
                      items == Items(Segment(c.trace, i))
                  IN  (i > 1 /\ e.fn \in {"tuple", "range"} /\ ElemCount(e.arg) >= 1) =>
                         /\ e.as_sub
                         /\ CountWhat(items, "sub_delim") = ElemCount(e.arg) - 1
                         /\ CountWhat(items, "top_delim") = 0
            /\ c.delims.top_delim = <<";">> =>
                  Cardinality(Occurrences(Text(c.trace), ";")) = top
            /\ (c.obj = TestVectors /\ c.delims = BarDelims) =>
                  /\ top = 2
                  /\ Cardinality(Occurrences(Text(c.trace), "|")) = 2
                  /\ Text(c.trace) = TestVectorsBarText

\* ss << delimited(vectors).top_delim(" | ")
ThreeLevelsBar ==
    /\ Rendered
    /\ LastCall.obj = TestVectors
    /\ LastCall.delims = BarDelims
    /\ ~LastCall.trace[1].as_sub
    /\ \E i \in CallsOf(LastCall.trace) :
          /\ LastCall.trace[i].arg = Range(<<IntVal(5), IntVal(6), IntVal(7), IntVal(8)>>)
          /\ Text(Segment(LastCall.trace, i)) =
                <<"(", "5", ",", " ", "6", ",", " ", "7", ",", " ", "8", ")">>
    /\ out = TestVectorsBarText

(***************************************************************************)
(* C14. A tuple and a container holding the same elements in the same      *)
(* order, inserted with the same delimiters into sinks in the same state,  *)
(* insert the same characters.                                             *)
(***************************************************************************)
Homogeneous(es) == \A k \in 1..Len(es) : es[k].type = es[1].type

TupleRangeSameText ==
    (/\ Rendered
     /\ LastCall.obj.type \in {"tuple", "range"}
     /\ Homogeneous(LastCall.obj.elems)) =>
        LET c == LastCall
            other == IF c.obj.type = "tuple" THEN Range(c.obj.elems)
                     ELSE Tuple(c.obj.elems)
            trace == ResolveNull(output(other, c.delims, c.trace[1].as_sub),
                                 c.outcome, c.delims)
        IN  c.after = ostream_insert(c.before, c.width, trace)

(***************************************************************************)
(* C15. A step of operator<< leaves the inserter as it was, the value and  *)
(* every field of the delimiters, and keeps what the sink held: the        *)
(* content after the step is the content before it followed by the text    *)
(* the call inserted. This holds for a call that is rejected or that traps *)
(* too: what the sink held stays.                                          *)
(***************************************************************************)
IsPrefix(s, t) == Len(s) <= Len(t) /\ SubSeq(t, 1, Len(s)) = s

RenderStep == status = "ready" /\ (calls' # calls \/ status' # status)

RenderAppends ==
    [][RenderStep =>
          /\ di' = di
          /\ \A f \in Fields : di'.delims[f] = di.delims[f]
          /\ IsPrefix(out, out')
          /\ calls' # calls =>
                LET c == calls'[Len(calls')]
                IN  /\ calls' = Append(calls, c)
                    /\ c.obj = di.obj
                    /\ c.delims = di.delims
                    /\ c.before = out
                    /\ c.after = out'
                    /\ out' = out \o Formatted(c.trace, width)
                    /\ width = 0 => out' = out \o Text(c.trace)]_vars

\* a pair was inserted after a first insertion into the same sink
RenderedAfterContent ==
    /\ Len(calls) = 2
    /\ calls[2].before = <<"1", "=", "O", "n", "e">>
    /\ di.obj = Pair(IntVal(1), String(One))
    /\ di.delims = DistinctDelims
    /\ lastop.op = "operator<<"
    /\ out = <<"1", "=", "O", "n", "e", "1", "=", "O", "n", "e">>

(***************************************************************************)
(* C16. In the insertions of one completed operator<< call the brackets    *)
(* are balanced and nested: read in order, every sub_suffix closes the     *)
(* last open sub_prefix and every pair_suffix the last open pair_prefix,   *)
(* and none is left open at the return. The same holds of every nested     *)
(* call: a call with as_sub inserts its prefix first and its suffix last,  *)
(* after everything its elements insert; a call without as_sub, or on a    *)
(* string or a number, inserts no bracket of its own.                      *)
(***************************************************************************)
Openers == {"sub_prefix", "pair_prefix"}

Closers == {"sub_suffix", "pair_suffix"}

BracketKind(what) == IF what \in {"sub_prefix", "sub_suffix"} THEN "sub" ELSE "pair"

\* the bracket insertions of a trace, in order
BracketSeq(trace) ==
    LET emits == SelectSeq(trace, LAMBDA e : e.ev = "emit" /\ e.what \in Openers \cup Closers)
    IN  [k \in 1..Len(emits) |-> emits[k].what]

\* what is left of a bracket sequence when every opener directly followed by
\* a closer is removed, again and again: the closers without an opener,
\* then the openers without a closer; ok is false when a closer met an
\* opener of the other kind
RECURSIVE Reduce(_)
Reduce(b) ==
    IF Len(b) = 0 THEN [ok |-> TRUE, close |-> <<>>, open |-> <<>>]
    ELSE IF Len(b) = 1
         THEN IF b[1] \in Openers
              THEN [ok |-> TRUE, close |-> <<>>, open |-> <<BracketKind(b[1])>>]
              ELSE [ok |-> TRUE, close |-> <<BracketKind(b[1])>>, open |-> <<>>]
    ELSE LET mid == Len(b) \div 2
             l == Reduce(SubSeq(b, 1, mid))
             r == Reduce(SubSeq(b, mid + 1, Len(b)))
             k == IF Len(l.open) <= Len(r.close) THEN Len(l.open) ELSE Len(r.close)
         IN  [ok |-> /\ l.ok
                     /\ r.ok
                     /\ \A t \in 1..k : l.open[Len(l.open) - t + 1] = r.close[t],
              close |-> l.close \o SubSeq(r.close, k + 1, Len(r.close)),
              open |-> SubSeq(l.open, 1, Len(l.open) - k) \o r.open]

Balanced(trace) ==
    Reduce(BracketSeq(trace)) = [ok |-> TRUE, close |-> <<>>, open |-> <<>>]

OwnBrackets(items) ==
    SelectSeq(Whats(items), LAMBDA w : w[1] = "emit" /\ w[2] \in Openers \cup Closers)

BracketsBalanced ==
    Rendered =>
        LET c == LastCall
        IN  /\ Balanced(c.trace)
            /\ \A j \in 1..Len(c.trace) :
                  (c.trace[j].ev = "emit" /\ c.trace[j].what \in Openers \cup Closers) =>
                      c.trace[j].text = c.delims[c.trace[j].what]
            /\ \A i \in CallsOf(c.trace) :
                  LET e == c.trace[i]
                      seg == Segment(c.trace, i)
                      items == Items(seg)
                      w == Whats(items)
                      pre == IF e.fn = "pair" THEN "pair_prefix" ELSE "sub_prefix"
                      suf == IF e.fn = "pair" THEN "pair_suffix" ELSE "sub_suffix"
                  IN  /\ Balanced(seg)
                      /\ IF e.fn \in {"pair", "tuple", "range"} /\ e.as_sub
                         THEN /\ Len(items) >= 3
                              /\ w[1] = <<"emit", pre>>
                              /\ w[Len(items)] = <<"emit", suf>>
                              /\ OwnBrackets(items) = <<w[1], w[Len(items)]>>
                         ELSE OwnBrackets(items) = <<>>

\* a container of a map whose values are tuples, one of them empty:
\* brackets three deep
BracketsThreeDeep ==
    /\ Rendered
    /\ LastCall.obj =
          Range(<<Range(<<Pair(IntVal(1), Tuple(<<>>)),
                          Pair(IntVal(20), Tuple(<<IntVal(1)>>))>>)>>)
    /\ LastCall.delims = DistinctDelims
    /\ BracketSeq(LastCall.trace) =
          <<"sub_prefix", "pair_prefix", "sub_prefix", "sub_suffix", "pair_suffix",
            "pair_prefix", "sub_prefix", "sub_suffix", "pair_suffix", "sub_suffix">>
    /\ LastCall.after = LastCall.before \o
          <<"{", "<", "1", "=", "{", "~", "}", ">", "|",
            "<", "2", "0", "=", "{", "1", "}", ">", "}">>

====
